---- MODULE Spec2Model ----
(***************************************************************************)
(* A model of go-env: Unmarshal / UnmarshalPrefix walk the fields of a      *)
(* struct and fill them from a KEY=VALUE list.                              *)
(*                                                                         *)
(* Strings are TLA+ strings; the character at position i of s is           *)
(* SubSeq(s, i, i), a one-character string.                                *)
(***************************************************************************)
EXTENDS Integers, Sequences, FiniteSets, TLC

VARIABLES
    pc,          \* "start" | "walk" | "done" | the pure-function positions
    target,      \* what the caller passed as out: "nil" | "notPointer" | "notStruct" | "struct"
    structType,  \* the struct type out points to: a sequence of field descriptors
    env,         \* the []string passed as env
    prefix,      \* the prefix passed to UnmarshalPrefix
    preset,      \* whether the caller filled *out before the call (else it holds zero values)
    envVars,     \* the map parseEnv built (a function from keys to values)
    out,         \* the value of every field of *out, by index path
    stack,       \* the active loadEnvVarsIntoStruct calls, innermost last
    err,         \* the error Unmarshal returns (kind "none": nil)
    log,         \* what the walk did, in order: one record per processField call that acted
    fnArg,       \* the argument of the pure function under check
    fnRes        \* its result

vars == <<pc, target, structType, env, prefix, preset, envVars, out, stack, err, log, fnArg, fnRes>>

----------------------------------------------------------------------------
(* Characters and strings                                                  *)

At(s, i) == SubSeq(s, i, i)

LowerLetters == "abcdefghijklmnopqrstuvwxyz"
UpperLetters == "ABCDEFGHIJKLMNOPQRSTUVWXYZ"
DigitChars == "0123456789"

InStr(c, s) == \E i \in 1..Len(s) : At(s, i) = c
IndexIn(c, s) == CHOOSE i \in 1..Len(s) : At(s, i) = c

\* unicode.IsUpper / unicode.IsLower / unicode.ToUpper / ToLower on ASCII
IsUpper(c) == InStr(c, UpperLetters)
IsLower(c) == InStr(c, LowerLetters)
ToUpper(c) == IF IsLower(c) THEN At(UpperLetters, IndexIn(c, LowerLetters)) ELSE c
ToLower(c) == IF IsUpper(c) THEN At(LowerLetters, IndexIn(c, UpperLetters)) ELSE c

isNum(r) == InStr(r, DigitChars)
isLetter(r) == IsLower(r) \/ IsUpper(r)

----------------------------------------------------------------------------
(* fieldNameToEnvVariable                                                  *)

\* writeRune without its check of the previously written rune
writeRuneUnchecked(st, r) == [sb |-> st.sb \o r, prevRune |-> r]

\* the closure writeRune: st is the pair (sb, prevRune) it closes over
writeRune(st, r) ==
    IF r = "_" /\ r = st.prevRune
    THEN st
    ELSE [sb |-> st.sb \o r, prevRune |-> r]

\* one iteration of the loop over the name, at (1-based) position i
nameStep(name, i, st) ==
    LET cur == At(name, i) IN
    IF i = Len(name)
    THEN writeRune(st, ToUpper(cur))
    ELSE
      LET next == At(name, i + 1)
          isLetterFollowedByNum == isLetter(cur) /\ isNum(next)
          isNumFollowedByALetter == isNum(cur) /\ isLetter(next)
          isUpperFollowedByLower == IsUpper(cur) /\ IsLower(next)
          isLowerFollowedByUpper == IsLower(cur) /\ IsUpper(next)
      IN  IF isUpperFollowedByLower
          THEN writeRune(writeRune(st, "_"), cur)
          ELSE IF isLetterFollowedByNum \/ isNumFollowedByALetter \/ isLowerFollowedByUpper
          THEN writeRune(writeRune(st, ToUpper(cur)), "_")
          ELSE writeRune(st, ToUpper(cur))

RECURSIVE nameLoop(_, _, _)
nameLoop(name, i, st) ==
    IF i > Len(name) THEN st ELSE nameLoop(name, i + 1, nameStep(name, i, st))

fieldNameToEnvVariable(name) ==
    nameLoop(name, 1, [sb |-> "", prevRune |-> "_"]).sb

----------------------------------------------------------------------------
(* The functions of package strings that parseFieldTag and parseEnv use    *)

\* strings.Index(s, sep) for a one-character sep, 1-based; 0 when absent
Index(s, sep) ==
    IF \E i \in 1..Len(s) : At(s, i) = sep
    THEN CHOOSE i \in 1..Len(s) : At(s, i) = sep /\ \A j \in 1..(i - 1) : At(s, j) # sep
    ELSE 0

\* strings.SplitN(s, sep, 2)
SplitN2(s, sep) ==
    LET i == Index(s, sep) IN
    IF i = 0 THEN <<s>> ELSE <<SubSeq(s, 1, i - 1), SubSeq(s, i + 1, Len(s))>>

\* strings.Split(s, sep)
RECURSIVE Split(_, _)
Split(s, sep) ==
    LET i == Index(s, sep) IN
    IF i = 0 THEN <<s>> ELSE <<SubSeq(s, 1, i - 1)>> \o Split(SubSeq(s, i + 1, Len(s)), sep)

\* unicode.IsSpace, which strings.TrimSpace strips by: the space, \t, \n, \v, \f,
\* \r, U+0085 (next line), U+00A0 (no-break space) and U+1680 (ogham space mark);
\* the space characters U+2000 and above cannot be written in a string here. The
\* second string holds, in this order, \v, U+0085, U+00A0 and U+1680.
SpaceChars == " \t\n\r\f" \o "  "
IsSpace(c) == Len(c) = 1 /\ InStr(c, SpaceChars)

\* strings.TrimSpace
RECURSIVE TrimLeft(_)
TrimLeft(s) == IF Len(s) > 0 /\ IsSpace(At(s, 1)) THEN TrimLeft(SubSeq(s, 2, Len(s))) ELSE s
RECURSIVE TrimRight(_)
TrimRight(s) == IF Len(s) > 0 /\ IsSpace(At(s, Len(s))) THEN TrimRight(SubSeq(s, 1, Len(s) - 1)) ELSE s
TrimSpace(s) == TrimRight(TrimLeft(s))

\* strings.ToLower
RECURSIVE ToLowerStr(_)
ToLowerStr(s) == IF s = "" THEN "" ELSE ToLower(At(s, 1)) \o ToLowerStr(SubSeq(s, 2, Len(s)))

\* strings.EqualFold on ASCII
EqualFold(s, t) == ToLowerStr(s) = ToLowerStr(t)

\* strings.ReplaceAll(s, "\\s", " "): left to right, non-overlapping
RECURSIVE ReplaceEscapedSpace(_)
ReplaceEscapedSpace(s) ==
    IF Len(s) < 2 THEN s
    ELSE IF SubSeq(s, 1, 2) = "\\s"
         THEN " " \o ReplaceEscapedSpace(SubSeq(s, 3, Len(s)))
         ELSE At(s, 1) \o ReplaceEscapedSpace(SubSeq(s, 2, Len(s)))

----------------------------------------------------------------------------
(* parseFieldTag                                                           *)

\* keyValPairs[k] = v on a Go map
MapPut(m, k, v) == [x \in DOMAIN m \cup {k} |-> IF x = k THEN v ELSE m[x]]
EmptyMap == [x \in {} |-> ""]

\* whether one directive token sets Required
tokenIsRequired(pair) ==
    LET keyVal == SplitN2(pair, "=")
        standardName == ToLowerStr(TrimSpace(keyVal[1]))
    IN  EqualFold(standardName, "required")

\* one iteration of the loop over the directive tokens; st = (Required, keyValPairs)
tagStep(st, pair) ==
    LET keyVal == SplitN2(pair, "=")
        standardName == ToLowerStr(TrimSpace(keyVal[1]))
        req == st.Required \/ tokenIsRequired(pair)
    IN  IF Len(keyVal) # 2
        THEN [Required |-> req, keyValPairs |-> st.keyValPairs]
        ELSE [Required |-> req,
              keyValPairs |-> MapPut(st.keyValPairs, standardName, ReplaceEscapedSpace(keyVal[2]))]

RECURSIVE tagLoop(_, _, _)
tagLoop(pairs, i, st) ==
    IF i > Len(pairs) THEN st ELSE tagLoop(pairs, i + 1, tagStep(st, pairs[i]))

parseFieldTag(tag) ==
    LET tagParts == SplitN2(tag, ",")
        envName == TrimSpace(tagParts[1])
    IN  IF Len(tagParts) = 1
        THEN [Name |-> envName, Default |-> "", HasDefault |-> FALSE, Required |-> FALSE]
        ELSE LET st == tagLoop(Split(tagParts[2], " "), 1,
                               [Required |-> FALSE, keyValPairs |-> EmptyMap])
                 has == "default" \in DOMAIN st.keyValPairs
             IN  [Name |-> envName,
                  Default |-> IF has THEN st.keyValPairs["default"] ELSE "",
                  HasDefault |-> has,
                  Required |-> st.Required]

\* parseEnv: later entries overwrite earlier ones, entries without "=" are dropped
RECURSIVE parseEnvLoop(_, _, _)
parseEnvLoop(list, i, m) ==
    IF i > Len(list) THEN m
    ELSE LET parts == SplitN2(list[i], "=") IN
         parseEnvLoop(list, i + 1, IF Len(parts) # 2 THEN m ELSE MapPut(m, parts[1], parts[2]))

parseEnv(list) == parseEnvLoop(list, 1, EmptyMap)

----------------------------------------------------------------------------
(* Types and values                                                        *)
(*                                                                         *)
(* A type is [kind, elem, ptr, recv, fields]: ptr levels of pointer around *)
(* a base type of reflect.Kind kind (elem: the element kind of a slice;    *)
(* fields: the fields of a struct); recv says how the base type declares   *)
(* UnmarshalEnv: "none", on a "value" receiver or on a "pointer" receiver. *)
(* A field descriptor is [Name, Tag, Exported, Type]; Tag is what          *)
(* fieldType.Tag.Get("env") returns.                                       *)
(*                                                                         *)
(* A value is [lvl, v, elems, fresh]: lvl is the number of non-nil pointer  *)
(* levels (0 for a nil pointer and for a non-pointer), v the base value as *)
(* text (integers in canonical decimal form), elems the elements of a      *)
(* slice, fresh whether the pointers were made by reflect.New during the   *)
(* call (FALSE: the field holds what the caller put there).                *)

\* reflect.New at each of n levels of pointer, around the zero value zero
New(n, zero) == [lvl |-> n, v |-> zero, elems |-> <<>>, fresh |-> TRUE]

T(kind) == [kind |-> kind, elem |-> "", ptr |-> 0, recv |-> "none", fields |-> <<>>]
SliceOf(elem) == [kind |-> "slice", elem |-> elem, ptr |-> 0, recv |-> "none", fields |-> <<>>]
StructOf(fields) == [kind |-> "struct", elem |-> "", ptr |-> 0, recv |-> "none", fields |-> fields]
PtrTo(t) == [t EXCEPT !.ptr = @ + 1]
WithHook(t, recv) == [t EXCEPT !.recv = recv]
Elem(t) == [t EXCEPT !.ptr = @ - 1]
F(name, tag, type) == [Name |-> name, Tag |-> tag, Exported |-> IsUpper(At(name, 1)), Type |-> type]

SignedKinds == {"int", "int8", "int16", "int32", "int64"}
UnsignedKinds == {"uint", "uint8", "uint16", "uint32", "uint64"}
FloatKinds == {"float32", "float64"}

\* the zero value of a base type
ZeroText(t) ==
    IF t.kind \in SignedKinds \cup UnsignedKinds \cup FloatKinds THEN "0"
    ELSE IF t.kind = "bool" THEN "false"
    ELSE ""
Zero(t) == [lvl |-> 0, v |-> ZeroText(t), elems |-> <<>>, fresh |-> FALSE]

----------------------------------------------------------------------------
(* strconv, as far as the parsers of fieldKindToParser use it.             *)
(* Numbers are compared as decimal digit strings: 64-bit limits do not     *)
(* fit the model checker's integers.                                       *)

IsDigits(s) == Len(s) > 0 /\ \A i \in 1..Len(s) : isNum(At(s, i))

RECURSIVE StripZeros(_)
StripZeros(s) == IF Len(s) > 1 /\ At(s, 1) = "0" THEN StripZeros(SubSeq(s, 2, Len(s))) ELSE s

DigitVal(c) == IndexIn(c, DigitChars) - 1

\* a <= b for digit strings without leading zeros
RECURSIVE DigitsLeqSameLen(_, _)
DigitsLeqSameLen(a, b) ==
    IF a = "" THEN TRUE
    ELSE IF DigitVal(At(a, 1)) < DigitVal(At(b, 1)) THEN TRUE
    ELSE IF DigitVal(At(a, 1)) > DigitVal(At(b, 1)) THEN FALSE
    ELSE DigitsLeqSameLen(SubSeq(a, 2, Len(a)), SubSeq(b, 2, Len(b)))
DigitsLeq(a, b) ==
    Len(a) < Len(b) \/ (Len(a) = Len(b) /\ DigitsLeqSameLen(a, b))

\* 2^(bitSize-1) - 1, 2^(bitSize-1) and 2^bitSize - 1 in decimal
MaxInt(bitSize) ==
    CASE bitSize = 8 -> "127" [] bitSize = 16 -> "32767" [] bitSize = 32 -> "2147483647"
      [] bitSize = 64 -> "9223372036854775807"
MinIntMagnitude(bitSize) ==
    CASE bitSize = 8 -> "128" [] bitSize = 16 -> "32768" [] bitSize = 32 -> "2147483648"
      [] bitSize = 64 -> "9223372036854775808"
MaxUint(bitSize) ==
    CASE bitSize = 8 -> "255" [] bitSize = 16 -> "65535" [] bitSize = 32 -> "4294967295"
      [] bitSize = 64 -> "18446744073709551615"

Failed(cause) == [ok |-> FALSE, val |-> "", cause |-> cause]
Parsed(val) == [ok |-> TRUE, val |-> val, cause |-> ""]

\* the loop of strconv.ParseUint over the characters of s, from character i on:
\* a character that is no digit ends it with a syntax error, a digit that takes
\* the number read so far past maxVal ends it with a range error
RECURSIVE ParseUintLoop(_, _, _)
ParseUintLoop(s, i, maxVal) ==
    IF i > Len(s) THEN Parsed(StripZeros(s))
    ELSE IF ~isNum(At(s, i)) THEN Failed("invalid syntax")
    ELSE IF ~DigitsLeq(StripZeros(SubSeq(s, 1, i)), maxVal) THEN Failed("value out of range")
    ELSE ParseUintLoop(s, i + 1, maxVal)

\* strconv.ParseUint(s, 10, bitSize); bitSize 0 is the size of uint, 64
ParseUint(s, bitSize) ==
    IF s = "" THEN Failed("invalid syntax")
    ELSE ParseUintLoop(s, 1, MaxUint(IF bitSize = 0 THEN 64 ELSE bitSize))

\* strconv.ParseInt(s, 10, bitSize): the sign is picked off, the rest goes to
\* ParseUint with the same bit size, whose range error is kept (un is then the
\* largest unsigned number of that size) and whose syntax error is returned;
\* then un is compared with the cutoff
ParseInt(s, bitSize) ==
    LET bits == IF bitSize = 0 THEN 64 ELSE bitSize
        neg == Len(s) > 0 /\ At(s, 1) = "-"
        signed == Len(s) > 0 /\ At(s, 1) \in {"+", "-"}
        digits == IF signed THEN SubSeq(s, 2, Len(s)) ELSE s
        un == ParseUint(digits, bitSize)
        mag == IF un.ok THEN un.val ELSE MaxUint(bits)
    IN  IF s = "" THEN Failed("invalid syntax")
        ELSE IF ~un.ok /\ un.cause # "value out of range" THEN Failed(un.cause)
        ELSE IF ~neg /\ ~DigitsLeq(mag, MaxInt(bits)) THEN Failed("value out of range")
        ELSE IF neg /\ ~DigitsLeq(mag, MinIntMagnitude(bits)) THEN Failed("value out of range")
        ELSE Parsed(IF neg /\ mag # "0" THEN "-" \o mag ELSE mag)

\* strconv.ParseBool
ParseBool(s) ==
    IF s \in {"1", "t", "T", "TRUE", "true", "True"} THEN Parsed("true")
    ELSE IF s \in {"0", "f", "F", "FALSE", "false", "False"} THEN Parsed("false")
    ELSE Failed("invalid syntax")

\* strconv.ParseFloat. The value parsed is kept as its text; what is modelled is
\* which texts parse, which are a syntax error and which a range error.

HexDigitChars == "0123456789abcdef"
\* the four bits of a hexadecimal digit
HexBits(c) ==
    <<"0000", "0001", "0010", "0011", "0100", "0101", "0110", "0111",
      "1000", "1001", "1010", "1011", "1100", "1101", "1110", "1111">>[IndexIn(c, HexDigitChars)]

RECURSIVE RemoveUnderscores(_)
RemoveUnderscores(s) ==
    IF s = "" THEN ""
    ELSE (IF At(s, 1) = "_" THEN "" ELSE At(s, 1)) \o RemoveUnderscores(SubSeq(s, 2, Len(s)))

\* s without its leading zeros ("" when s holds nothing else)
RECURSIVE StripAllZeros(_)
StripAllZeros(s) ==
    IF Len(s) > 0 /\ At(s, 1) = "0" THEN StripAllZeros(SubSeq(s, 2, Len(s))) ELSE s

\* special: the names of infinity, with or without a sign, and of NaN, without
IsSpecialFloat(s) ==
    LET signed == Len(s) > 0 /\ At(s, 1) \in {"+", "-"}
        body == ToLowerStr(IF signed THEN SubSeq(s, 2, Len(s)) ELSE s)
    IN  body \in {"inf", "infinity"} \/ (body = "nan" /\ ~signed)

\* readFloat, the loop over the mantissa (m, in lower case, up to the exponent
\* character): digits, underscores and at most one point, one digit at least
IsMantissa(m, hex) ==
    /\ \A i \in 1..Len(m) :
          \/ isNum(At(m, i))
          \/ At(m, i) \in {"_", "."}
          \/ hex /\ InStr(At(m, i), HexDigitChars)
    /\ \A i, j \in 1..Len(m) : (At(m, i) = "." /\ At(m, j) = ".") => i = j
    /\ \E i \in 1..Len(m) : isNum(At(m, i)) \/ (hex /\ InStr(At(m, i), HexDigitChars))

\* readFloat, the exponent (x, after the exponent character): an optional sign,
\* a digit, then digits and underscores
IsExponent(x) ==
    LET signed == Len(x) > 0 /\ At(x, 1) \in {"+", "-"}
        digits == IF signed THEN SubSeq(x, 2, Len(x)) ELSE x
    IN  /\ Len(digits) > 0 /\ isNum(At(digits, 1))
        /\ \A i \in 1..Len(digits) : isNum(At(digits, i)) \/ At(digits, i) = "_"

\* the loop of underscoreOK from character i on; saw is the kind of the last
\* character seen: "0" a digit (or the base prefix), "_", "!" any other, "^" none
RECURSIVE underscoreLoop(_, _, _, _)
underscoreLoop(s, i, saw, hex) ==
    IF i > Len(s) THEN saw # "_"
    ELSE IF isNum(At(s, i)) \/ (hex /\ InStr(ToLower(At(s, i)), "abcdef"))
    THEN underscoreLoop(s, i + 1, "0", hex)
    ELSE IF At(s, i) = "_"
    THEN saw = "0" /\ underscoreLoop(s, i + 1, "_", hex)
    ELSE saw # "_" /\ underscoreLoop(s, i + 1, "!", hex)

\* underscoreOK(s): an underscore stands between two digits, or between the base
\* prefix and a digit
underscoreOK(s) ==
    LET body == IF Len(s) > 0 /\ At(s, 1) \in {"+", "-"} THEN SubSeq(s, 2, Len(s)) ELSE s
        prefixed == Len(body) >= 2 /\ At(body, 1) = "0" /\ ToLower(At(body, 2)) \in {"b", "o", "x"}
    IN  IF prefixed
        THEN underscoreLoop(body, 3, "0", ToLower(At(body, 2)) = "x")
        ELSE underscoreLoop(body, 1, "^", FALSE)

\* readFloat, the value of the exponent digits: e = e*10 + digit while e < 10000
RECURSIVE ExponentLoop(_, _, _)
ExponentLoop(digits, i, e) ==
    IF i > Len(digits) THEN e
    ELSE ExponentLoop(digits, i + 1, IF e < 10000 THEN e * 10 + DigitVal(At(digits, i)) ELSE e)
ExponentValue(x) ==
    LET signed == Len(x) > 0 /\ At(x, 1) \in {"+", "-"}
        e == ExponentLoop(RemoveUnderscores(IF signed THEN SubSeq(x, 2, Len(x)) ELSE x), 1, 0)
    IN  IF Len(x) > 0 /\ At(x, 1) = "-" THEN 0 - e ELSE e

\* the mantissa m read as 0.digits times base^dp: its digits without leading zeros
\* and the place dp of the point
MantissaDigits(m) ==
    LET parts == SplitN2(RemoveUnderscores(m), ".")
        all == parts[1] \o (IF Len(parts) = 2 THEN parts[2] ELSE "")
        digits == StripAllZeros(all)
    IN  [digits |-> digits, dp |-> Len(parts[1]) - (Len(all) - Len(digits))]

\* the bits of hexadecimal digits
RECURSIVE BitsOf(_)
BitsOf(digits) ==
    IF digits = "" THEN "" ELSE HexBits(At(digits, 1)) \o BitsOf(SubSeq(digits, 2, Len(digits)))
\* whether 0.digits >= 0.limit, digit by digit from digit i on (a digit string
\* that has ended goes on with zeros)
RECURSIVE FractionGeq(_, _, _)
FractionGeq(digits, limit, i) ==
    LET d == IF i > Len(digits) THEN 0 ELSE DigitVal(At(digits, i)) IN
    IF i > Len(limit) THEN TRUE
    ELSE IF d > DigitVal(At(limit, i)) THEN TRUE
    ELSE IF d < DigitVal(At(limit, i)) THEN FALSE
    ELSE FractionGeq(digits, limit, i + 1)

\* the least magnitude that rounds to infinity, 2^1024 - 2^970 for float64 and
\* 2^128 - 2^103 for float32: its decimal digits, their number, the number of
\* its binary digits and the number of leading binary digits that are ones
FloatLimitDigits(bitSize) ==
    IF bitSize = 32 THEN "340282356779733661637539395458142568448"
    ELSE
    "1797693134862315807937289714053034150799341327100378269361737789804449" \o
    "6829276475094664901797758720709633028641669288791094655554785194040263" \o
    "0657488671505820681908902000708383676273854845817711531764475730270069" \o
    "8555713669596228429148198608349364752927190741684443655107043427115596" \o
    "99508093042880177904174497792"
FloatLimitBits(bitSize) == IF bitSize = 32 THEN 128 ELSE 1024
FloatLimitOnes(bitSize) == IF bitSize = 32 THEN 25 ELSE 54

\* whether 0.digits times 10^exp10 rounds to infinity
DecimalOverflows(digits, exp10, bitSize) ==
    LET limit == FloatLimitDigits(bitSize) IN
    /\ digits # ""
    /\ \/ exp10 > Len(limit)
       \/ exp10 = Len(limit) /\ FractionGeq(digits, limit, 1)

\* whether 0.bits (binary, the first bit a one) times 2^exp2 rounds to infinity
BinaryOverflows(bits, exp2, bitSize) ==
    /\ bits # ""
    /\ \/ exp2 > FloatLimitBits(bitSize)
       \/ /\ exp2 = FloatLimitBits(bitSize)
          /\ Len(bits) >= FloatLimitOnes(bitSize)
          /\ \A i \in 1..FloatLimitOnes(bitSize) : At(bits, i) = "1"

\* atof32 / atof64 on a text readFloat accepted: mantissa m, exponent x ("" when
\* there is none)
FloatOverflows(m, x, hex, bitSize) ==
    LET md == MantissaDigits(m)
        e == IF x = "" THEN 0 ELSE ExponentValue(x)
        bits == StripAllZeros(BitsOf(md.digits))
    IN  IF hex
        THEN BinaryOverflows(bits, 4 * md.dp + e - (4 * Len(md.digits) - Len(bits)), bitSize)
        ELSE DecimalOverflows(md.digits, md.dp + e, bitSize)

\* readFloat on the text after the sign (body, in lower case), s the whole text
ReadFloat(s, body, hex, bitSize) ==
    LET parts == SplitN2(IF hex THEN SubSeq(body, 3, Len(body)) ELSE body,
                         IF hex THEN "p" ELSE "e")
    IN  IF ~IsMantissa(parts[1], hex) THEN Failed("invalid syntax")
        ELSE IF Len(parts) = 1 /\ hex THEN Failed("invalid syntax")
        ELSE IF Len(parts) = 2 /\ ~IsExponent(parts[2]) THEN Failed("invalid syntax")
        ELSE IF InStr("_", s) /\ ~underscoreOK(s) THEN Failed("invalid syntax")
        ELSE IF FloatOverflows(parts[1], IF Len(parts) = 2 THEN parts[2] ELSE "", hex, bitSize)
        THEN Failed("value out of range")
        ELSE Parsed(s)

\* strconv.ParseFloat(s, bitSize)
ParseFloat(s, bitSize) ==
    LET signed == Len(s) > 0 /\ At(s, 1) \in {"+", "-"}
        body == ToLowerStr(IF signed THEN SubSeq(s, 2, Len(s)) ELSE s)
    IN  IF IsSpecialFloat(s) THEN Parsed(s)
        ELSE ReadFloat(s, body, Len(body) > 2 /\ SubSeq(body, 1, 2) = "0x", bitSize)

----------------------------------------------------------------------------
(* fieldparser.go                                                          *)

\* the keys of the map fieldKindToParser
ParserKinds == {"string", "bool"} \cup SignedKinds \cup UnsignedKinds \cup FloatKinds

\* every parser passing bit size 64, the narrowing left to the conversion
parserBitSizeWide(kind) == 64

\* the bit size each integer parser of fieldKindToParser passes to strconv
parserBitSize(kind) ==
    CASE kind \in {"int8", "uint8"} -> 8
      [] kind \in {"int16", "uint16"} -> 16
      [] kind \in {"int32", "uint32", "float32"} -> 32
      [] kind \in {"int64", "uint64", "float64"} -> 64
      [] kind = "int" -> 64      \* strconv.Atoi
      [] kind = "uint" -> 0

\* fieldKindToParser[kind](v)
fieldKindToParser(kind, v) ==
    CASE kind = "string" -> Parsed(v)
      [] kind = "bool" -> ParseBool(v)
      [] kind \in SignedKinds -> ParseInt(v, parserBitSize(kind))
      [] kind \in UnsignedKinds -> ParseUint(v, parserBitSize(kind))
      [] kind \in FloatKinds -> ParseFloat(v, parserBitSize(kind))

\* the code of a character of the printable ASCII range (32..95 and 97..126)
PrintableLow == " !\"#$%&'()*+,-./0123456789:;<=>?@ABCDEFGHIJKLMNOPQRSTUVWXYZ[\\]^_"
PrintableHigh == "abcdefghijklmnopqrstuvwxyz{|}~"
ByteOf(c) ==
    IF InStr(c, PrintableLow) THEN IndexIn(c, PrintableLow) + 31
    ELSE IndexIn(c, PrintableHigh) + 96

\* a Go string is its UTF-8 encoding: the bytes of one code point
EncodeRune(r) ==
    IF r < 128 THEN <<r>>
    ELSE IF r < 2048 THEN <<192 + (r \div 64), 128 + (r % 64)>>
    ELSE IF r < 65536
    THEN <<224 + (r \div 4096), 128 + ((r \div 64) % 64), 128 + (r % 64)>>
    ELSE <<240 + (r \div 262144), 128 + ((r \div 4096) % 64), 128 + ((r \div 64) % 64),
           128 + (r % 64)>>

\* the bytes of the string holding the code points runes
RECURSIVE EncodeRunes(_)
EncodeRunes(runes) ==
    IF runes = <<>> THEN <<>> ELSE EncodeRune(Head(runes)) \o EncodeRunes(Tail(runes))

\* the bytes of a string of printable ASCII characters
StringBytes(v) == [i \in 1..Len(v) |-> ByteOf(At(v, i))]

\* charSliceSetter(sliceType)(v), v the bytes of the string: len(v) elements,
\* element i is strValue.Index(i), byte i of v, converted to the element type
charSliceSetter(v) == [i \in 1..Len(v) |-> v[i]]

\* validateFieldAndReturnSetter: which setter the field gets ("" with an error)
validateFieldAndReturnSetter(t) ==
    IF t.kind = "slice" /\ t.elem \in {"int32", "uint8"}
    THEN [setter |-> "charSlice", err |-> ""]
    ELSE IF t.kind \in ParserKinds
    THEN [setter |-> "parser", err |-> ""]
    ELSE [setter |-> "", err |-> "unsupported field type"]

\* fieldSetterFunc.Set on the innermost (non-pointer) value: the parsed value
\* is stored only when the parser returned no error
fieldSetterFuncSet(t, setter, v, cur) ==
    IF setter = "charSlice"
    THEN [err |-> "", val |-> [cur EXCEPT !.elems = charSliceSetter(StringBytes(v))]]
    ELSE LET r == fieldKindToParser(t.kind, v) IN
         IF r.ok THEN [err |-> "", val |-> [cur EXCEPT !.v = r.val]]
         ELSE [err |-> r.cause, val |-> cur]

\* concreteFieldInitializer.Set converting first and allocating the pointer
\* levels only for a value that was converted
concreteFieldInitializerSetLate(t, setter, v, cur) ==
    LET start == IF t.ptr > 0 THEN New(t.ptr, ZeroText(t)) ELSE cur
        r == fieldSetterFuncSet(t, setter, v, start)
    IN  IF r.err # "" THEN [err |-> r.err, val |-> cur] ELSE r

\* concreteFieldInitializer.Set: every pointer level is allocated and stored
\* in the field before the value is parsed
concreteFieldInitializerSet(t, setter, v, cur) ==
    LET start == IF t.ptr > 0 THEN New(t.ptr, ZeroText(t)) ELSE cur
    IN  fieldSetterFuncSet(t, setter, v, start)

----------------------------------------------------------------------------
(* error.go                                                                *)

NoError == [kind |-> "none", field |-> "", envVar |-> "", cause |-> ""]
\* the errors.New of UnmarshalPrefix for what was passed as out (how: "nil",
\* "notPointer" or "notStruct"): no FieldParseError can be extracted
TargetError(how) ==
    [kind |-> "target", field |-> "", envVar |-> "",
     cause |-> IF how = "nil" THEN "env: out must be a non-nil pointer to a struct"
               ELSE "out must be a non-nil pointer to a struct"]
\* newFieldParseError(err, field, envVar)
newFieldParseError(cause, field, envVar) ==
    [kind |-> "field", field |-> field, envVar |-> envVar, cause |-> cause]

----------------------------------------------------------------------------
(* attemptUnmarshal                                                        *)

\* fieldType.Implements(unmarshalerType): the method set of *B holds the
\* methods of B declared on either receiver, the method set of B those on a
\* value receiver, and a pointer to a pointer has no methods
Implements(t) ==
    \/ t.ptr = 1 /\ t.recv \in {"value", "pointer"}
    \/ t.ptr = 0 /\ t.recv = "value"

\* the loop that unwraps pointers until the type implements Unmarshaler
RECURSIVE findUnmarshaler(_, _)
findUnmarshaler(t, depth) ==
    IF Implements(t) THEN [found |-> TRUE, unmarshalerDepth |-> depth]
    ELSE IF t.ptr > 0 THEN findUnmarshaler(Elem(t), depth + 1)
    ELSE [found |-> FALSE, unmarshalerDepth |-> depth]

\* what a call of UnmarshalEnv, code of the caller, may do: return an error or
\* nil, and store in its receiver or not (json.Unmarshal, the hook of the
\* examples, stores what it has decoded also when it returns an error)
HookOutcomes == [fails : BOOLEAN, stores : BOOLEAN]

\* UnmarshalEnv(v) of a type that declares it on receiver recv, called on the
\* value cur: a method on a value receiver works on a copy, and cur stays as it
\* is; on a pointer receiver what the hook stores is kept as the text v
UnmarshalEnv(recv, cur, v, hook) ==
    [err |-> IF hook.fails THEN "UnmarshalEnv failed" ELSE "",
     val |-> IF hook.stores /\ recv = "pointer" THEN [cur EXCEPT !.v = v] ELSE cur]

\* attemptUnmarshal allocating the pointer levels before it looks at envValueSet
attemptUnmarshalEager(t, cur, envValue, envValueSet, hook) ==
    LET u == findUnmarshaler(PtrTo(t), 0) IN
    IF ~u.found
    THEN [did |-> FALSE, err |-> "", val |-> cur, called |-> FALSE]
    ELSE LET fresh == IF u.unmarshalerDepth > 0
                      THEN New(u.unmarshalerDepth, ZeroText(t))
                      ELSE cur
         IN  IF ~envValueSet
             THEN [did |-> TRUE, err |-> "", val |-> fresh, called |-> FALSE]
             ELSE [did |-> TRUE, err |-> UnmarshalEnv(t.recv, fresh, envValue, hook).err,
                   val |-> UnmarshalEnv(t.recv, fresh, envValue, hook).val, called |-> TRUE]

\* attemptUnmarshal(field, envValue, envValueSet), on a field of type t holding cur
attemptUnmarshal(t, cur, envValue, envValueSet, hook) ==
    LET u == findUnmarshaler(PtrTo(t), 0) IN
    IF ~u.found
    THEN [did |-> FALSE, err |-> "", val |-> cur, called |-> FALSE]
    ELSE IF ~envValueSet
    THEN [did |-> TRUE, err |-> "", val |-> cur, called |-> FALSE]
    ELSE LET fresh == IF u.unmarshalerDepth > 0
                      THEN New(u.unmarshalerDepth, ZeroText(t))
                      ELSE cur
             r == UnmarshalEnv(t.recv, fresh, envValue, hook)
         IN  [did |-> TRUE, err |-> r.err, val |-> r.val, called |-> TRUE]

----------------------------------------------------------------------------
(* processField                                                            *)

\* resolveEnvName with the prefix put before the tag's name too
resolveEnvNamePrefixed(fTag, envVarPrefix, fieldName) ==
    envVarPrefix \o (IF fTag.Name = "" THEN fieldNameToEnvVariable(fieldName) ELSE fTag.Name)

\* the variable a field reads: the tag's name, or the prefix and the derived name
resolveEnvName(fTag, envVarPrefix, fieldName) ==
    IF fTag.Name = "" THEN envVarPrefix \o fieldNameToEnvVariable(fieldName) ELSE fTag.Name

\* resolveEnvValue with the default taking precedence over the variable
resolveEnvValueDefaultFirst(m, envName, fTag) ==
    IF fTag.HasDefault THEN [envValue |-> fTag.Default, envValueSet |-> TRUE]
    ELSE IF envName \in DOMAIN m THEN [envValue |-> m[envName], envValueSet |-> TRUE]
    ELSE [envValue |-> "", envValueSet |-> FALSE]

\* the raw value: the variable's, or the tag's default when the variable is absent
resolveEnvValue(m, envName, fTag) ==
    IF envName \in DOMAIN m THEN [envValue |-> m[envName], envValueSet |-> TRUE]
    ELSE IF fTag.HasDefault THEN [envValue |-> fTag.Default, envValueSet |-> TRUE]
    ELSE [envValue |-> "", envValueSet |-> FALSE]

\* processField without its test of the sentinel
isSkippedNever(fTag) == FALSE

\* what `if envName == "-"` decides
isSkipped(fTag) == fTag.Name = "-"

\* isMissingRequired without the test of envValueSet
isMissingRequiredAlways(fTag, envValueSet) == fTag.Required

\* what `if !envValueSet && fTag.Required` decides
isMissingRequired(fTag, envValueSet) == ~envValueSet /\ fTag.Required

\* what processField returns and does for one exported field holding cur:
\*   what: "skip" | "missing" | "hook" | "recurse" | "unsupported" | "absent" | "set"
\*   err: the error returned; val: the field afterwards; called: UnmarshalEnv ran;
\*   recurse: loadEnvVarsIntoStruct is called on the field
Outcome(what, e, val, called, envName, fieldPath, ev) ==
    [what |-> what, err |-> e, val |-> val, called |-> called, recurse |-> what = "recurse",
     envName |-> envName, fieldPath |-> fieldPath,
     envValue |-> ev.envValue, envValueSet |-> ev.envValueSet]

NoValue == [envValue |-> "", envValueSet |-> FALSE]

\* processField in the order of its statements, each stage taking what the
\* statements before it computed.

\* the end: fieldValueSetter.Set(envValue, field), st its result
processFieldSet(fieldPath, envName, ev, st) ==
    IF st.err # ""
    THEN Outcome("set", newFieldParseError(st.err, fieldPath, envName), st.val, FALSE,
                 envName, fieldPath, ev)
    ELSE Outcome("set", NoError, st.val, FALSE, envName, fieldPath, ev)

\* processFieldCoerce looking at envValueSet before the setter's error, the
\* order of the doc comment of Unmarshal
processFieldCoerceLate(f, cur, fieldPath, envName, ev, vs) ==
    IF ~ev.envValueSet
    THEN Outcome("absent", NoError, cur, FALSE, envName, fieldPath, ev)
    ELSE IF vs.err # ""
    THEN Outcome("unsupported", newFieldParseError(vs.err, fieldPath, envName), cur, FALSE,
                 envName, fieldPath, ev)
    ELSE processFieldSet(fieldPath, envName, ev,
                         concreteFieldInitializerSet(f.Type, vs.setter, ev.envValue, cur))

\* from validateFieldAndReturnSetter (vs its result) on
processFieldCoerce(f, cur, fieldPath, envName, ev, vs) ==
    IF vs.err # ""
    THEN Outcome("unsupported", newFieldParseError(vs.err, fieldPath, envName), cur, FALSE,
                 envName, fieldPath, ev)
    ELSE IF ~ev.envValueSet
    THEN Outcome("absent", NoError, cur, FALSE, envName, fieldPath, ev)
    ELSE processFieldSet(fieldPath, envName, ev,
                         concreteFieldInitializerSet(f.Type, vs.setter, ev.envValue, cur))

\* from the result um of attemptUnmarshal on
processFieldUnmarshaled(f, cur, fieldPath, envName, ev, um) ==
    IF um.err # ""
    THEN Outcome("hook", newFieldParseError(um.err, fieldPath, envName), um.val, um.called,
                 envName, fieldPath, ev)
    ELSE IF um.did
    THEN Outcome("hook", NoError, um.val, um.called, envName, fieldPath, ev)
    ELSE IF f.Type.kind = "struct" /\ f.Type.ptr = 0
    THEN Outcome("recurse", NoError, cur, FALSE, envName, fieldPath, ev)
    ELSE processFieldCoerce(f, cur, fieldPath, envName, ev, validateFieldAndReturnSetter(f.Type))

\* from the raw value ev on
processFieldValued(f, cur, fieldPath, hook, fTag, envName, ev) ==
    IF isMissingRequired(fTag, ev.envValueSet)
    THEN Outcome("missing", newFieldParseError("missing required value", fieldPath, envName),
                 cur, FALSE, envName, fieldPath, ev)
    ELSE processFieldUnmarshaled(f, cur, fieldPath, envName, ev,
             attemptUnmarshal(f.Type, cur, ev.envValue, ev.envValueSet, hook))

\* from the variable name on
processFieldNamed(f, cur, m, fieldPath, hook, fTag, envName) ==
    processFieldValued(f, cur, fieldPath, hook, fTag, envName,
                       resolveEnvValue(m, envName, fTag))

\* from the parsed tag on
processFieldTagged(f, cur, m, fieldPath, envVarPrefix, hook, fTag) ==
    IF isSkipped(fTag)
    THEN Outcome("skip", NoError, cur, FALSE, fTag.Name, fieldPath, NoValue)
    ELSE processFieldNamed(f, cur, m, fieldPath, hook, fTag,
                           resolveEnvName(fTag, envVarPrefix, f.Name))

processField(f, cur, m, fieldPathPrefix, envVarPrefix, hook) ==
    processFieldTagged(f, cur, m, fieldPathPrefix \o f.Name, envVarPrefix, hook,
                       parseFieldTag(f.Tag))

----------------------------------------------------------------------------
(* The struct out points to                                                *)

\* the field at an index path (a sequence of field numbers, outermost first)
RECURSIVE FieldAt(_, _)
FieldAt(fields, path) ==
    IF Len(path) = 1 THEN fields[path[1]]
    ELSE FieldAt(fields[path[1]].Type.fields, Tail(path))

\* the fields of the struct at an index path (<<>>: the struct itself)
FieldsAt(fields, path) ==
    IF path = <<>> THEN fields ELSE FieldAt(fields, path).Type.fields

\* the index paths of all the fields that exist as values: a struct held by
\* value holds its fields, a nil pointer to a struct holds none
RECURSIVE AllPaths(_)
AllPaths(fields) ==
    UNION { {<<i>>} \cup
            (IF fields[i].Type.kind = "struct" /\ fields[i].Type.ptr = 0
             THEN { <<i>> \o p : p \in AllPaths(fields[i].Type.fields) }
             ELSE {})
          : i \in 1..Len(fields) }

\* a value the caller may have stored before the call
Preset(t) ==
    [lvl |-> t.ptr,
     v |-> IF t.kind \in SignedKinds \cup UnsignedKinds \cup FloatKinds THEN "42"
           ELSE IF t.kind = "bool" THEN "true"
           ELSE IF t.kind \in {"slice", "struct"} THEN ""
           ELSE "old",
     elems |-> IF t.kind = "slice" THEN <<ByteOf("o"), ByteOf("k")>> ELSE <<>>,
     fresh |-> FALSE]

InitialOut(fields, filled) ==
    [p \in AllPaths(fields) |->
        IF filled THEN Preset(FieldAt(fields, p).Type) ELSE Zero(FieldAt(fields, p).Type)]

----------------------------------------------------------------------------
(* Unmarshal, UnmarshalPrefix, loadEnvVarsIntoStruct                       *)

Frame(path, fieldPath, envVarPrefix) ==
    [path |-> path, i |-> 1, fieldPath |-> fieldPath, envVarPrefix |-> envVarPrefix]

Top == stack[Len(stack)]
TopFields == FieldsAt(structType, Top.path)

\* the loop going on after an error other than a missing required value
returnsErrorMissingOnly(e) == e.kind # "none" /\ e.cause = "missing required value"

\* `if err := processField(...); err != nil { return err }`
returnsError(e) == e.kind # "none"

\* UnmarshalPrefix up to its call of loadEnvVarsIntoStruct (Unmarshal passes prefix "")
UnmarshalPrefix ==
    /\ pc = "start"
    /\ IF target # "struct"
       THEN /\ err' = TargetError(target)
            /\ pc' = "done"
            /\ UNCHANGED <<envVars, stack>>
       ELSE /\ envVars' = parseEnv(env)
            /\ stack' = <<Frame(<<>>, "", prefix)>>
            /\ pc' = "walk"
            /\ err' = NoError
    /\ UNCHANGED <<target, structType, env, prefix, preset, out, log, fnArg, fnRes>>

\* what the loop of loadEnvVarsIntoStruct does with the result r of processField
\* on the field at index path p: an error ends every active call and Unmarshal
AfterField(p, r) ==
    /\ out' = [out EXCEPT ![p] = r.val]
    /\ log' = Append(log, [path |-> p, r |-> r])
    /\ IF returnsError(r.err)
       THEN /\ err' = r.err
            /\ pc' = "done"
            /\ stack' = <<>>
       ELSE /\ err' = err
            /\ pc' = pc
            /\ stack' = IF r.recurse
                        THEN Append([stack EXCEPT ![Len(stack)].i = @ + 1],
                                    Frame(p, r.fieldPath \o ".", r.envName \o "_"))
                        ELSE [stack EXCEPT ![Len(stack)].i = @ + 1]

\* one iteration of the loop of loadEnvVarsIntoStruct: processField on field i of
\* the struct of the innermost call
ProcessField ==
    /\ pc = "walk"
    /\ Top.i <= Len(TopFields)
    /\ IF ~TopFields[Top.i].Exported
       THEN /\ stack' = [stack EXCEPT ![Len(stack)].i = @ + 1]
            /\ UNCHANGED <<pc, out, err, log>>
       ELSE \E hook \in HookOutcomes :
                AfterField(Top.path \o <<Top.i>>,
                           processField(TopFields[Top.i], out[Top.path \o <<Top.i>>], envVars,
                                        Top.fieldPath, Top.envVarPrefix, hook))
    /\ UNCHANGED <<target, structType, env, prefix, preset, envVars, fnArg, fnRes>>

\* loadEnvVarsIntoStruct returns nil: past the last field (or numFields == 0);
\* the outermost return is Unmarshal's return of nil
ReturnNil ==
    /\ pc = "walk"
    /\ Top.i > Len(TopFields)
    /\ stack' = SubSeq(stack, 1, Len(stack) - 1)
    /\ pc' = IF Len(stack) = 1 THEN "done" ELSE "walk"
    /\ UNCHANGED <<target, structType, env, prefix, preset, envVars, out, err, log, fnArg, fnRes>>

Next == UnmarshalPrefix \/ ProcessField \/ ReturnNil

----------------------------------------------------------------------------
(* The inputs the model draws: struct types, KEY=VALUE lists, prefixes     *)

\* the longest generated sequence of fields of a struct
MaxFields == 2

\* type sliceUnmarshaler []string with UnmarshalEnv on the pointer receiver
sliceUnmarshaler == WithHook(SliceOf("string"), "pointer")
\* a struct type with UnmarshalEnv on the pointer receiver
structUnmarshaler == WithHook(StructOf(<<F("Inner", "", T("chan"))>>), "pointer")
\* an integer type with UnmarshalEnv on the value receiver
valueUnmarshaler == WithHook(T("int64"), "value")

HookTypes ==
    {sliceUnmarshaler, PtrTo(sliceUnmarshaler), PtrTo(PtrTo(sliceUnmarshaler)),
     structUnmarshaler, PtrTo(structUnmarshaler), valueUnmarshaler, PtrTo(valueUnmarshaler)}

UnsupportedTypes ==
    {T("chan"), T("map"), T("func"), T("interface"), SliceOf("string"), PtrTo(T("chan")),
     PtrTo(StructOf(<<F("Inner", "", T("string"))>>))}

CoercibleTypes ==
    {T("string"), T("bool"), T("int8"), T("uint"), T("float64"), T("float32"), SliceOf("uint8"),
     SliceOf("int32"),
     PtrTo(T("bool")), PtrTo(PtrTo(T("int16")))}

LeafTypes == HookTypes \cup UnsupportedTypes \cup CoercibleTypes

\* a struct held by value
RecordTypes == {StructOf(<<F("X", "", T("int8")), F("Y", "", PtrTo(sliceUnmarshaler))>>)}

Tags ==
    {"", "N", "-", ",required", ",default=7", ",required default=John\\sDoe",
     "-,required default=7", "OTHER,required", " , Required=false"}

\* structs of one field, every tag on every type
OneFieldStructs == { <<F("N", tag, t)>> : tag \in Tags, t \in LeafTypes \cup RecordTypes }

OneFieldEnvs ==
    {<<>>, <<"N=7">>, <<"N=seven">>, <<"APP_N=7", "OTHER=true">>, <<"N", "OTHER=8", "OTHER=">>,
     <<"N_X=5", "N_Y=y", "OTHER_X=6">>, <<"N=3.5e38", "OTHER=1e999">>,
     <<"N=0x1_0p-2", "OTHER=1_0">>}

\* fields that succeed or fail depending on the variables, for structs of several fields
Nested == StructOf(<<F("X", "", T("int8")), F("secret", "", T("chan")), F("Y", ",required", T("string"))>>)
Deeper == StructOf(<<F("MaxAge", "", T("uint")), F("In", "", Nested), F("TTLSeconds", "JWT_TTL", T("uint"))>>)
SeveralPool ==
    {F("A", "", T("string")), F("B", ",required", T("int8")), F("C", "", T("chan")),
     F("D", "", PtrTo(sliceUnmarshaler)), F("E", "", Nested), F("hidden", "", T("map")),
     F("G", "AUTH", Deeper)}

RECURSIVE FieldSeqs(_)
FieldSeqs(n) ==
    IF n = 0 THEN {<<>>}
    ELSE LET shorter == FieldSeqs(n - 1) IN
         shorter \cup { Append(fs, f) : fs \in { x \in shorter : Len(x) = n - 1 },
                                        f \in SeveralPool }

\* no two fields of a struct have the same name
DistinctNames(fs) == \A i, j \in 1..Len(fs) : i # j => fs[i].Name # fs[j].Name

SeveralFieldStructs == { fs \in FieldSeqs(MaxFields) : DistinctNames(fs) }

SeveralFieldEnvs ==
    {<<>>,
     <<"A=a", "B=1", "D=d", "E_X=2", "E_Y=y", "AUTH_MAX_AGE=3", "AUTH_IN_X=4", "AUTH_IN_Y=z", "JWT_TTL=60">>,
     <<"A=a", "B=999", "D=d", "E_X=999", "E_Y=y", "AUTH_IN_X=-129", "AUTH_IN_Y=z", "JWT_TTL=-1">>,
     <<"APP_A=a", "APP_B=-128", "APP_D=d", "APP_E_X=127", "APP_E_Y=", "AUTH=x", "AUTH_TTL_SECONDS=5">>,
     <<"B=1", "E_X=2", "AUTH_IN_Y=z", "G_MAX_AGE=9">>}

\* the structs and variables of the package's examples
ExampleEnvTags ==
    <<F("UnsupportedType", "-", T("chan")),
      F("Name", ",required default=John\\sDoe", T("string")),
      F("URL", "", T("string")),
      F("FavoriteColor", ",default=blue", T("string")),
      F("Authentication", "AUTH",
        StructOf(<<F("SigningKey", "", T("string")),
                   F("TTLSeconds", "JWT_TTL", T("uint")),
                   F("MaxAge", "", T("uint"))>>))>>
ExamplePlainStruct ==
    <<F("URL", "", T("string")),
      F("DeleteUser", "", PtrTo(T("bool"))),
      F("Bytes", "", SliceOf("uint8")),
      F("Auth", "",
        StructOf(<<F("SigningKey", "", T("string")), F("TTLSeconds", "", T("uint"))>>))>>
ExampleError == <<F("UnsupportedType", "", T("chan"))>>
ExampleUnmarshaler ==
    <<F("ValidIDs", "VALID_IDS", sliceUnmarshaler), F("PrimaryID", "", T("string"))>>
\* a required nested struct, and the struct of the spec's round trip under two levels
RequiredStruct == <<F("Auth", ",required", StructOf(<<F("SigningKey", "", T("string"))>>))>>
ExampleStructs ==
    {ExampleEnvTags, ExamplePlainStruct, ExampleError, ExampleUnmarshaler, RequiredStruct, <<>>}

ExampleEnvs ==
    {<<>>,
     <<"URL=https://example.com", "AUTH_SIGNING_KEY=signing_key", "JWT_TTL=60">>,
     <<"URL=https://example.com", "AUTH_SIGNING_KEY=signing_key", "AUTH_TTL_SECONDS=60",
       "BYTES=these are bytes", "DELETE_USER=true">>,
     <<"VALID_IDS=[\"id1\", \"id2\"]", "PRIMARY_ID=4321", "NAME=Jane", "AUTH_MAX_AGE=x">>}

Prefixes == {"", "APP_"}
Targets == {"nil", "notPointer", "notStruct", "struct"}

\* the (struct, env) pairs of a call
Calls ==
    (OneFieldStructs \X OneFieldEnvs) \cup (SeveralFieldStructs \X SeveralFieldEnvs)
        \cup (ExampleStructs \X ExampleEnvs)

InitCall(calls) ==
    /\ pc = "start"
    /\ target \in Targets
    /\ \E c \in calls : structType = c[1] /\ env = c[2]
    /\ prefix \in Prefixes
    /\ preset \in BOOLEAN
    /\ target # "struct" => structType = <<>> /\ env = <<>> /\ prefix = "" /\ ~preset
    /\ envVars = EmptyMap
    /\ out = InitialOut(structType, preset)
    /\ stack = <<>>
    /\ err = NoError
    /\ log = <<>>
    /\ fnArg = ""
    /\ fnRes = ""

Init == InitCall(Calls)

Spec == Init /\ [][Next]_vars

----------------------------------------------------------------------------
(* fieldNameToEnvVariable on its own: the names of fields                  *)

\* the longest generated identifier
MaxNameLen == 4

NameAlphabet == {"a", "z", "A", "Z", "0", "9"}

RECURSIVE NamesOfLen(_)
NamesOfLen(n) == IF n = 0 THEN {""} ELSE { s \o c : s \in NamesOfLen(n - 1), c \in NameAlphabet }

\* the names of TestFieldNameToEnvVariable
TestNames == {"JSONString", "fooBar", "fooJSON", "MagicMike", "JSON1String"}

Names == TestNames \cup UNION { NamesOfLen(n) : n \in 0..MaxNameLen }

\* the variables of the walk, at rest
NoCall ==
    /\ target = "nil"
    /\ structType = <<>>
    /\ env = <<>>
    /\ prefix = ""
    /\ preset = FALSE
    /\ envVars = EmptyMap
    /\ out = InitialOut(<<>>, FALSE)
    /\ stack = <<>>
    /\ err = NoError
    /\ log = <<>>

InitName ==
    /\ pc = "name"
    /\ fnArg \in Names
    /\ fnRes = ""
    /\ NoCall

CallFieldNameToEnvVariable ==
    /\ pc = "name"
    /\ fnRes' = fieldNameToEnvVariable(fnArg)
    /\ pc' = "named"
    /\ UNCHANGED <<target, structType, env, prefix, preset, envVars, out, stack, err, log, fnArg>>

SpecName == InitName /\ [][CallFieldNameToEnvVariable]_vars

IsAlnum(s) == \A i \in 1..Len(s) : isLetter(At(s, i)) \/ isNum(At(s, i))

\* the boundaries the claim names, between positions i and i + 1 of name
BoundaryAfter(name, i) ==
    LET a == At(name, i)
        b == At(name, i + 1)
    IN  \/ IsLower(a) /\ IsUpper(b)
        \/ IsUpper(b) /\ i + 2 <= Len(name) /\ IsLower(At(name, i + 2))
        \/ isLetter(a) /\ isNum(b)
        \/ isNum(a) /\ isLetter(b)

\* the name upper-cased, one underscore at each boundary
RECURSIVE Segmented(_, _)
Segmented(name, i) ==
    IF i > Len(name) THEN ""
    ELSE (IF i > 1 /\ BoundaryAfter(name, i - 1) THEN "_" ELSE "")
         \o ToUpper(At(name, i)) \o Segmented(name, i + 1)

WellSeparated(s) ==
    /\ Len(s) > 0 => At(s, 1) # "_" /\ At(s, Len(s)) # "_"
    /\ \A i \in 1..(Len(s) - 1) : ~(At(s, i) = "_" /\ At(s, i + 1) = "_")

TestExpectation(name) ==
    CASE name = "JSONString" -> "JSON_STRING"
      [] name = "fooBar" -> "FOO_BAR"
      [] name = "fooJSON" -> "FOO_JSON"
      [] name = "MagicMike" -> "MAGIC_MIKE"
      [] name = "JSON1String" -> "JSON_1_STRING"

\* C1: for an identifier of ASCII letters and digits, fieldNameToEnvVariable returns
\* the identifier upper-cased with exactly one underscore at each boundary (lower then
\* upper; before an upper followed by a lower, except at the start; letter next to
\* digit) and nowhere else, with no leading, trailing or doubled underscore; and the
\* five names of the test give their expected results.
C1_NameDerivation ==
    (pc = "named" /\ IsAlnum(fnArg)) =>
        /\ fnRes = Segmented(fnArg, 1)
        /\ WellSeparated(fnRes)
        /\ fnArg \in TestNames => fnRes = TestExpectation(fnArg)

\* an acronym, a digit and a word: both kinds of boundary around the digit
C1_Witness == pc = "named" /\ fnArg = "JSON1String" /\ fnRes = "JSON_1_STRING"

----------------------------------------------------------------------------
(* What the claims speak of, read off the struct type and the variables    *)

Initial == InitialOut(structType, preset)
FieldOf(p) == FieldAt(structType, p)
Front(p) == SubSeq(p, 1, Len(p) - 1)

\* the first, comma-delimited segment of a tag, trimmed: the explicit name
TagName(tag) == TrimSpace(SplitN2(tag, ",")[1])
IsDash(p) == TagName(FieldOf(p).Tag) = "-"

\* the dotted path of a field
RECURSIVE DottedPath(_)
DottedPath(p) ==
    IF Len(p) = 1 THEN FieldOf(p).Name ELSE DottedPath(Front(p)) \o "." \o FieldOf(p).Name

\* the variable of a field as C2 states it: the explicit name, else the inherited
\* prefix (the caller's, or the enclosing field's variable and "_") and the derived name
RECURSIVE ClaimedEnvName(_)
ClaimedEnvName(p) ==
    IF TagName(FieldOf(p).Tag) # "" THEN TagName(FieldOf(p).Tag)
    ELSE (IF Len(p) = 1 THEN prefix ELSE ClaimedEnvName(Front(p)) \o "_")
         \o fieldNameToEnvVariable(FieldOf(p).Name)

\* a struct held by value whose type has no UnmarshalEnv
IsPlainStruct(t) == t.kind = "struct" /\ t.ptr = 0 /\ t.recv = "none"

\* the fields a walk without error comes to: exported, inside exported plain
\* structs that are not skipped
RECURSIVE Walked(_)
Walked(p) ==
    /\ FieldOf(p).Exported
    /\ Len(p) > 1 => /\ Walked(Front(p))
                     /\ ~IsDash(Front(p))
                     /\ IsPlainStruct(FieldOf(Front(p)).Type)

Present(p) == ClaimedEnvName(p) \in DOMAIN envVars
HasDefault(p) == parseFieldTag(FieldOf(p).Tag).HasDefault
IsRequired(p) == parseFieldTag(FieldOf(p).Tag).Required

LogIndex == 1..Len(log)
Processed(p) == \E i \in LogIndex : log[i].path = p
IsPrefixOf(p, q) == Len(p) <= Len(q) /\ SubSeq(q, 1, Len(p)) = p

\* C2: the variable read for a field is its explicit tag name when that is not
\* empty (verbatim, at any depth), else the inherited prefix followed by the derived
\* name; and the fields of a nested struct are resolved so whether or not a variable
\* named for the enclosing struct exists: a walk that ends without error has
\* processed every exported field of every nested struct it did not skip.
C2_ResolvedName ==
    /\ \A i \in LogIndex :
          log[i].r.what # "skip" => log[i].r.envName = ClaimedEnvName(log[i].path)
    /\ \A i \in LogIndex :
          (log[i].r.recurse /\ Len(stack) > 0 /\ Top.path = log[i].path)
              => Top.envVarPrefix = ClaimedEnvName(log[i].path) \o "_"
    /\ (pc = "done" /\ err.kind = "none" /\ target = "struct") =>
          \A p \in DOMAIN out : (Walked(p) /\ ~IsDash(p)) => Processed(p)
    /\ (pc = "done" /\ structType = ExampleEnvTags /\ prefix = "" /\ err.kind = "none") =>
          /\ \E i \in LogIndex : log[i].path = <<5, 1>> /\ log[i].r.envName = "AUTH_SIGNING_KEY"
          /\ \E i \in LogIndex : log[i].path = <<5, 2>> /\ log[i].r.envName = "JWT_TTL"
          /\ \E i \in LogIndex : log[i].path = <<5, 3>> /\ log[i].r.envName = "AUTH_MAX_AGE"

\* the example: no variable AUTH, and SigningKey is read from AUTH_SIGNING_KEY
C2_Witness ==
    /\ pc = "done" /\ structType = ExampleEnvTags /\ prefix = ""
    /\ "AUTH" \notin DOMAIN envVars
    /\ out[<<5, 1>>].v = "signing_key"
    /\ out[<<5, 2>>].v = "60"
    /\ \E i \in LogIndex : log[i].path = <<5, 3>> /\ log[i].r.envName = "AUTH_MAX_AGE"

\* C3: a required field whose variable is absent and whose tag has no default makes
\* Unmarshal fail with the missing-required-value error carrying that field's path
\* and variable; a required field whose variable is present or whose tag has a
\* default never produces that error.
C3_Required ==
    \A i \in LogIndex :
        LET p == log[i].path
            missing == newFieldParseError("missing required value", DottedPath(p), ClaimedEnvName(p))
        IN  log[i].r.what # "skip" =>
              /\ (IsRequired(p) /\ ~Present(p) /\ ~HasDefault(p)) =>
                    log[i].r.err = missing /\ pc = "done" /\ err = missing
              /\ (IsRequired(p) /\ (Present(p) \/ HasDefault(p))) =>
                    log[i].r.err.cause # "missing required value"

\* a required field of a nested struct, absent: the error names Auth.SigningKey-like paths
C3_Witness ==
    /\ pc = "done"
    /\ err.cause = "missing required value"
    /\ err.field = "E.Y"
    /\ err.envVar = "E_Y"

\* C4: a field whose explicit tag name is "-" is never modified and never causes an
\* error, whatever the variables, its type and the other directives of its tag; its
\* UnmarshalEnv is not called and the walk does not go into it.
C4_Dash ==
    \A p \in DOMAIN out :
        IsDash(p) =>
            /\ out[p] = Initial[p]
            /\ \A q \in DOMAIN out : IsPrefixOf(p, q) /\ q # p => out[q] = Initial[q] /\ ~Processed(q)
            /\ \A i \in LogIndex :
                  log[i].path = p =>
                      /\ log[i].r.err = NoError
                      /\ ~log[i].r.called
                      /\ ~log[i].r.recurse
                      /\ log[i].r.what = "skip"
            /\ err.kind = "field" => err.field # DottedPath(p)

\* a required channel field with a default, tagged "-", passed over with the variable set
C4_Witness ==
    /\ pc = "done"
    /\ err = NoError
    /\ structType = <<F("N", "-,required default=7", T("chan"))>>
    /\ "N" \in DOMAIN envVars
    /\ Processed(<<1>>)

\* the value of the last default=<v> directive of a tag, as written (<<>> when the
\* tag has none)
DefaultDirectives(tag) ==
    LET parts == SplitN2(tag, ",")
        tokens == IF Len(parts) = 1 THEN <<>> ELSE Split(parts[2], " ")
    IN  { i \in 1..Len(tokens) :
            Index(tokens[i], "=") > 0
            /\ ToLowerStr(TrimSpace(SubSeq(tokens[i], 1, Index(tokens[i], "=") - 1))) = "default" }
WrittenDefault(tag) ==
    LET parts == SplitN2(tag, ",")
        tokens == Split(parts[2], " ")
        last == CHOOSE i \in DefaultDirectives(tag) : \A j \in DefaultDirectives(tag) : j <= i
    IN  SubSeq(tokens[last], Index(tokens[last], "=") + 1, Len(tokens[last]))

\* s with every backslash-s replaced by one space, position by position
RECURSIVE Unescaped(_, _)
Unescaped(s, i) ==
    IF i > Len(s) THEN ""
    ELSE IF i < Len(s) /\ At(s, i) = "\\" /\ At(s, i + 1) = "s"
         THEN " " \o Unescaped(s, i + 2)
         ELSE At(s, i) \o Unescaped(s, i + 1)

\* C5: when the variable of a field is absent and the tag carries default=<v>, the
\* raw value used is <v> with every backslash-s replaced by a space (John\sDoe gives
\* "John Doe"); when the variable is present its value is used and the default ignored.
C5_Default ==
    \A i \in LogIndex :
        LET p == log[i].path
            tag == FieldOf(p).Tag
        IN  log[i].r.what # "skip" =>
              /\ (~Present(p) /\ DefaultDirectives(tag) # {}) =>
                    /\ log[i].r.envValueSet
                    /\ log[i].r.envValue = Unescaped(WrittenDefault(tag), 1)
                    /\ tag = ",required default=John\\sDoe" => log[i].r.envValue = "John Doe"
                    /\ (log[i].r.what = "set" /\ log[i].r.err = NoError
                        /\ FieldOf(p).Type = T("string")) => out[p].v = log[i].r.envValue
              /\ Present(p) =>
                    /\ log[i].r.envValueSet
                    /\ log[i].r.envValue = envVars[ClaimedEnvName(p)]

\* the example: Name has no variable and becomes "John Doe"
C5_Witness ==
    /\ pc = "done" /\ err = NoError
    /\ structType = ExampleEnvTags
    /\ "NAME" \notin DOMAIN envVars
    /\ out[<<2>>].v = "John Doe"
    /\ out[<<4>>].v = "blue"

\* the base type declares UnmarshalEnv: the field's type implements the hook at
\* some pointer depth
HasHook(t) == t.recv \in {"value", "pointer"}

\* C6: for a field whose type implements UnmarshalEnv at any pointer depth, with the
\* variable absent, no default and not required: UnmarshalEnv is not called, no
\* pointer level is allocated (the field keeps its value), no error is returned, and
\* the field is neither walked into nor given to the built-in coercion.
C6_HookAbsent ==
    \A i \in LogIndex :
        LET p == log[i].path IN
        (log[i].r.what # "skip" /\ HasHook(FieldOf(p).Type)
         /\ ~Present(p) /\ ~HasDefault(p) /\ ~IsRequired(p)) =>
            /\ ~log[i].r.called
            /\ log[i].r.val = Initial[p]
            /\ out[p] = Initial[p]
            /\ log[i].r.err = NoError
            /\ ~log[i].r.recurse
            /\ log[i].r.what = "hook"
            /\ \A q \in DOMAIN out : IsPrefixOf(p, q) /\ q # p => ~Processed(q) /\ out[q] = Initial[q]

\* a nil pointer to a pointer to a hook type, the variable absent: still nil at the end
C6_Witness ==
    /\ pc = "done" /\ err = NoError
    /\ structType = <<F("N", "", PtrTo(PtrTo(sliceUnmarshaler)))>>
    /\ "N" \notin DOMAIN envVars
    /\ ~preset
    /\ Processed(<<1>>)
    /\ out[<<1>>].lvl = 0

\* the kinds Unmarshal's doc comment and fieldKindToParser list, behind any pointers
IsCoercible(t) ==
    \/ t.kind \in {"string", "bool", "int", "int8", "int16", "int32", "int64", "uint", "uint8",
                   "uint16", "uint32", "uint64", "float32", "float64"}
    \/ t.kind = "slice" /\ t.elem \in {"uint8", "int32"}

\* C7: an exported field that is not skipped, whose type is not coercible, is not a
\* struct and has no UnmarshalEnv makes Unmarshal return an error from which a
\* FieldParseError with the field's dotted path and variable can be extracted, also
\* when the variable is absent.
C7_Unsupported ==
    \A i \in LogIndex :
        LET p == log[i].path
            t == FieldOf(p).Type
        IN  (log[i].r.what # "skip" /\ ~IsCoercible(t) /\ t.kind # "struct" /\ ~HasHook(t)) =>
              /\ log[i].r.err.kind = "field"
              /\ log[i].r.err.field = DottedPath(p)
              /\ log[i].r.err.envVar = ClaimedEnvName(p)
              /\ ~IsRequired(p) => log[i].r.err.cause = "unsupported field type"
              /\ pc = "done" /\ err = log[i].r.err
              /\ out[p] = Initial[p]

\* the example: UnsupportedType chan struct{} and no variable UNSUPPORTED_TYPE
C7_Witness ==
    /\ pc = "done"
    /\ structType = ExampleError
    /\ prefix = ""
    /\ "UNSUPPORTED_TYPE" \notin DOMAIN envVars
    /\ err.kind = "field"
    /\ err.field = "UnsupportedType"
    /\ err.envVar = "UNSUPPORTED_TYPE"

\* C8: for every exported, non-skipped field whose variable is absent, whose tag has
\* no default and which is not required, processField leaves the field as it was,
\* returns no error and does not walk into it, whatever its type.
C8_AbsentOptional ==
    \A i \in LogIndex :
        LET p == log[i].path IN
        (log[i].r.what # "skip" /\ ~Present(p) /\ ~HasDefault(p) /\ ~IsRequired(p)) =>
            /\ log[i].r.val = Initial[p]
            /\ log[i].r.err = NoError
            /\ ~log[i].r.recurse

----------------------------------------------------------------------------
(* Integer fields: one field N of every integer kind, one variable N       *)

IntTypes ==
    { T(k) : k \in SignedKinds \cup UnsignedKinds } \cup {PtrTo(T("int8")), PtrTo(T("uint16"))}

\* texts at and around the limits of every width, and texts that are no numbers
IntTexts ==
    {"0", "7", "-1", "-0", "+5", "007", "", "abc", "12a", "1_000", " 5", "-", "1.0",
     "127", "128", "-128", "-129", "255", "256", "999", "-999", "+127", "+128",
     "32767", "32768", "-32768", "-32769", "65535", "65536",
     "2147483647", "2147483648", "-2147483648", "-2147483649", "4294967295", "4294967296",
     "9223372036854775807", "9223372036854775808", "-9223372036854775808",
     "-9223372036854775809", "18446744073709551615", "18446744073709551616",
     "99999999999999999999999", "-99999999999999999999999", "0000000000000000000000127",
     "256a", "-999x", "99999999999999999999999x"}

IntCalls == { <<F("N", "", t)>> : t \in IntTypes } \X { <<"N=" \o raw>> : raw \in IntTexts }

InitInt == InitCall(IntCalls) /\ target = "struct" /\ prefix = ""

SpecInt == InitInt /\ [][Next]_vars

\* the width a kind declares
DeclaredWidth(kind) ==
    CASE kind \in {"int8", "uint8"} -> 8
      [] kind \in {"int16", "uint16"} -> 16
      [] kind \in {"int32", "uint32"} -> 32
      [] kind \in {"int64", "uint64"} -> 64
SizedKinds == {"int8", "int16", "int32", "int64", "uint8", "uint16", "uint32", "uint64"}

\* a base-10 integer: an optional sign and digits
HasSign(raw) == Len(raw) > 0 /\ At(raw, 1) \in {"+", "-"}
IsNegative(raw) == Len(raw) > 0 /\ At(raw, 1) = "-"
Magnitude(raw) == StripZeros(IF HasSign(raw) THEN SubSeq(raw, 2, Len(raw)) ELSE raw)
IsNumeral(raw) == IsDigits(IF HasSign(raw) THEN SubSeq(raw, 2, Len(raw)) ELSE raw)

\* the number is representable in the kind
Representable(kind, raw) ==
    IF kind \in SignedKinds
    THEN IF IsNegative(raw) THEN DigitsLeq(Magnitude(raw), MinIntMagnitude(DeclaredWidth(kind)))
         ELSE DigitsLeq(Magnitude(raw), MaxInt(DeclaredWidth(kind)))
    ELSE IF IsNegative(raw) THEN Magnitude(raw) = "0"
         ELSE DigitsLeq(Magnitude(raw), MaxUint(DeclaredWidth(kind)))

\* the number in canonical decimal form
Canonical(raw) ==
    IF IsNegative(raw) /\ Magnitude(raw) # "0" THEN "-" \o Magnitude(raw) ELSE Magnitude(raw)

\* the text is one the parser of the kind takes: a number of the kind's range,
\* for an unsigned kind written without a sign
Accepted(kind, raw) ==
    Representable(kind, raw) /\ ~(kind \in UnsignedKinds /\ HasSign(raw))

\* the integer field N after the call, holding the number text behind as many
\* pointer levels as its type declares
Holding(t, text) == [lvl |-> t.ptr, v |-> text, elems |-> <<>>, fresh |-> t.ptr > 0]

\* C9: for every signed or unsigned integer field of declared width 8, 16, 32 or
\* 64, a base-10 value outside the range of that width makes Unmarshal fail with a
\* conversion error attributed to the field and the field keeps the value it had
\* before the call (no truncation, no wrap-around); a value inside the range is
\* stored exactly.
C9_IntegerRange ==
    LET t == FieldOf(<<1>>).Type
        raw == envVars["N"]
    IN  (pc = "done" /\ t.kind \in SizedKinds /\ IsNumeral(raw)) =>
          /\ ~Representable(t.kind, raw) =>
                /\ err.kind = "field" /\ err.field = "N" /\ err.envVar = "N"
                /\ out[<<1>>] = Initial[<<1>>]
          /\ Representable(t.kind, raw) =>
                /\ err = NoError
                /\ out[<<1>>].lvl = t.ptr
                /\ out[<<1>>].v = Canonical(raw)

\* C9, amended: as C9, for the texts the parser of the kind takes and for what a
\* failure leaves. A signed field takes an optional sign and digits; an unsigned
\* field takes digits only, and a text with a sign fails with a syntax error even
\* when its number (+5, -0) is inside the range. A text that is taken and inside
\* the range is stored exactly; every other one fails with a conversion error
\* attributed to the field, a range error unless it is a sign on an unsigned
\* field. After a failure a field held by value keeps the value it had; a
\* pointer field does not: it points at a newly allocated zero.
C9_IntegerRangeAmended ==
    LET t == FieldOf(<<1>>).Type
        raw == envVars["N"]
    IN  (pc = "done" /\ t.kind \in SizedKinds /\ IsNumeral(raw)) =>
          /\ ~Accepted(t.kind, raw) =>
                /\ err.kind = "field" /\ err.field = "N" /\ err.envVar = "N"
                /\ err.cause = IF t.kind \in UnsignedKinds /\ HasSign(raw)
                               THEN "invalid syntax" ELSE "value out of range"
                /\ out[<<1>>] = IF t.ptr = 0 THEN Initial[<<1>>] ELSE Holding(t, "0")
          /\ Accepted(t.kind, raw) =>
                /\ err = NoError
                /\ out[<<1>>] = Holding(t, Canonical(raw))
          /\ (t.kind = "int8" /\ raw = "999") => err.cause = "value out of range"
          /\ (t = T("int8") /\ raw = "999") => out[<<1>>] = Initial[<<1>>]
          /\ (t.kind = "int8" /\ raw = "-128") => out[<<1>>].v = "-128"
          /\ (t.kind = "uint8" /\ raw = "256") => err.cause = "value out of range"
          /\ (t.kind = "uint8" /\ raw = "+5") => err.cause = "invalid syntax"

\* "999" into an int8 field holding 42: an error, and the field still holds 42
C9_Witness ==
    /\ pc = "done"
    /\ FieldOf(<<1>>).Type = T("int8")
    /\ envVars["N"] = "999"
    /\ preset
    /\ err.cause = "value out of range"
    /\ out[<<1>>].v = "42"

----------------------------------------------------------------------------
(* The order of the walk                                                   *)

\* p comes before q in declaration order, depth-first (an enclosing field before
\* its fields)
PathLess(p, q) ==
    \/ Len(p) < Len(q) /\ SubSeq(q, 1, Len(p)) = p
    \/ \E k \in 1..Len(p) :
          /\ k <= Len(q)
          /\ SubSeq(p, 1, k - 1) = SubSeq(q, 1, k - 1)
          /\ p[k] < q[k]

\* C10: fields are processed in declaration order, depth-first through nested
\* structs, and the walk stops at the first field that fails: the error Unmarshal
\* returns is the error of that field, and no later field in that order is
\* assigned, walked into or has UnmarshalEnv called.
C10_FirstErrorWins ==
    /\ \A i, j \in LogIndex : i < j => PathLess(log[i].path, log[j].path)
    /\ \A i \in LogIndex :
          \A p \in DOMAIN out :
              (PathLess(p, log[i].path) /\ Walked(p)) => Processed(p)
    /\ \A i \in LogIndex :
          log[i].r.err # NoError =>
              /\ i = Len(log)
              /\ pc = "done"
              /\ err = log[i].r.err
              /\ \A p \in DOMAIN out :
                    PathLess(log[i].path, p) => out[p] = Initial[p] /\ ~Processed(p)
    /\ (pc = "done" /\ err # NoError /\ target = "struct") =>
          Len(log) > 0 /\ log[Len(log)].r.err = err
    /\ \A p \in DOMAIN out : ~Processed(p) => out[p] = Initial[p]

\* the first field of a nested struct fails on its value; the field after it in the
\* nested struct and the field after the nested struct are left alone
C10_Witness ==
    /\ pc = "done"
    /\ Len(structType) = 2
    /\ structType[1].Name = "E" /\ structType[2].Name = "A"
    /\ err.field = "E.X"
    /\ err.cause = "value out of range"
    /\ "E_Y" \in DOMAIN envVars /\ "A" \in DOMAIN envVars
    /\ ~Processed(<<1, 3>>) /\ ~Processed(<<2>>)
    /\ out[<<2>>] = Initial[<<2>>]

----------------------------------------------------------------------------
(* []byte and []rune fields: charSliceSetter on its own, on strings given  *)
(* by their code points                                                    *)

\* the longest generated string, in code points
MaxChars == 3

\* A, the comma, the space, e with acute accent (two bytes), the euro sign
\* (three bytes), the grinning face (four bytes)
CharRunes == {65, 44, 32, 233, 8364, 128512}

RECURSIVE RunesOfLen(_)
RunesOfLen(n) ==
    IF n = 0 THEN {<<>>} ELSE { Append(s, r) : s \in RunesOfLen(n - 1), r \in CharRunes }

CharTexts == UNION { RunesOfLen(n) : n \in 0..MaxChars }

\* []byte is []uint8, []rune is []int32
CharSliceTypes == {SliceOf("uint8"), SliceOf("int32")}

InitChars ==
    /\ pc = "chars"
    /\ fnArg \in [type : CharSliceTypes, runes : CharTexts]
    /\ fnRes = <<>>
    /\ NoCall

\* the setter validateFieldAndReturnSetter returns for the field, applied to the string
CallCharSliceSetter ==
    /\ pc = "chars"
    /\ validateFieldAndReturnSetter(fnArg.type).setter = "charSlice"
    /\ fnRes' = charSliceSetter(EncodeRunes(fnArg.runes))
    /\ pc' = "charsDone"
    /\ UNCHANGED <<target, structType, env, prefix, preset, envVars, out, stack, err, log, fnArg>>

SpecChars == InitChars /\ [][CallCharSliceSetter]_vars

\* C11: a []byte field receives exactly the bytes of the raw value, in order,
\* and a []rune field receives exactly the code points of the raw value, in
\* order, one element per code point, also when a character takes more than one
\* byte; a comma or a space in the value is an element like any other.
C11_CharSlices ==
    pc = "charsDone" =>
        /\ fnArg.type.elem = "uint8" => fnRes = EncodeRunes(fnArg.runes)
        /\ fnArg.type.elem = "int32" => fnRes = fnArg.runes

----------------------------------------------------------------------------
(* parseFieldTag on its own: tags written as a name and a list of          *)
(* directive tokens                                                        *)

\* the longest generated directive list, in tokens
MaxTokens == 2

\* the last name is N between a vertical tab and a no-break space
TagNames == {"", "N", "-", " N ", SubSeq(SpaceChars, 6, 6) \o "N" \o SubSeq(SpaceChars, 8, 8)}

TagTokens ==
    {"required", "REQUIRED", "required=false", "Required=", "requiredx", "default",
     "default=7", "Default=a\\sb", "x=1", ""}

RECURSIVE TokensOfLen(_)
TokensOfLen(n) ==
    IF n = 0 THEN {<<>>} ELSE { Append(s, t) : s \in TokensOfLen(n - 1), t \in TagTokens }

\* the tokens of a directive list, one space between two tokens
RECURSIVE JoinTokens(_)
JoinTokens(tokens) ==
    IF tokens = <<>> THEN ""
    ELSE IF Len(tokens) = 1 THEN tokens[1]
    ELSE tokens[1] \o " " \o JoinTokens(Tail(tokens))

\* the text of the tag: the name alone, or the name, a comma and the directive list
TagText(a) == IF a.comma THEN a.name \o "," \o JoinTokens(a.tokens) ELSE a.name

TagArgs ==
    [name : TagNames, comma : {FALSE}, tokens : {<<>>}]
        \cup [name : TagNames, comma : {TRUE},
              tokens : UNION { TokensOfLen(n) : n \in 1..MaxTokens }]

InitTag ==
    /\ pc = "tag"
    /\ fnArg \in TagArgs
    /\ fnRes = ""
    /\ NoCall

CallParseFieldTag ==
    /\ pc = "tag"
    /\ fnRes' = parseFieldTag(TagText(fnArg))
    /\ pc' = "tagged"
    /\ UNCHANGED <<target, structType, env, prefix, preset, envVars, out, stack, err, log, fnArg>>

SpecTag == InitTag /\ [][CallParseFieldTag]_vars

\* a token with no "=" in it
IsBare(token) == \A i \in 1..Len(token) : At(token, i) # "="
\* the text before the first "=" of a token that has one, and the text after it
KeyOf(token) == SubSeq(token, 1, Index(token, "=") - 1)
ValueOf(token) == SubSeq(token, Index(token, "=") + 1, Len(token))

\* C12: parseFieldTag sets required exactly when the directive list contains a
\* bare token (no "=") equal to "required" whatever the case of its letters; a
\* token with "=" (required=false) does not set required, and a bare token that
\* is not required changes neither required nor the default, which comes from
\* the default=<value> tokens alone.
C12_RequiredBare ==
    pc = "tagged" =>
        LET tokens == fnArg.tokens
            defaults == { i \in 1..Len(tokens) :
                            ~IsBare(tokens[i]) /\ ToLowerStr(KeyOf(tokens[i])) = "default" }
        IN  /\ fnRes.Required <=>
                  \E i \in 1..Len(tokens) :
                      IsBare(tokens[i]) /\ ToLowerStr(tokens[i]) = "required"
            /\ fnRes.HasDefault <=> defaults # {}
            /\ \A i \in defaults :
                  (\A j \in defaults : j <= i) =>
                      fnRes.Default = Unescaped(ValueOf(tokens[i]), 1)

----------------------------------------------------------------------------
(* Pointer fields                                                          *)

\* C13: when a value is resolved (the variable or a default) for a field of
\* pointer type that the built-in coercion or a custom hook handles, every
\* pointer level is allocated anew and stored in the field before the value is
\* converted: the field ends non-nil at every level and holds none of the
\* pointers it held before, and when the conversion or the hook fails Unmarshal
\* returns that error and the field points at a zero value.
C13_PointerFirst ==
    \A i \in LogIndex :
        LET p == log[i].path
            t == FieldOf(p).Type
        IN  (log[i].r.what \notin {"skip", "missing"} /\ t.ptr > 0
             /\ (Present(p) \/ HasDefault(p))
             /\ (HasHook(t) \/ IsCoercible(t))) =>
                /\ out[p].lvl = t.ptr
                /\ out[p].fresh
                /\ HasHook(t) => log[i].r.called
                /\ log[i].r.err # NoError =>
                      /\ pc = "done"
                      /\ err = log[i].r.err
                      /\ out[p] = [lvl |-> t.ptr, v |-> ZeroText(t), elems |-> <<>>, fresh |-> TRUE]

\* C13, amended: as C13, but what the field points at after a failure is the
\* zero value only where nothing stored into it: after a failed built-in
\* conversion and after a failed hook on a value receiver; after a failed hook
\* on a pointer receiver it is the new value as the hook left it, the zero value
\* or what the hook stored before it returned the error.
C13_PointerFirstAmended ==
    \A i \in LogIndex :
        LET p == log[i].path
            t == FieldOf(p).Type
            zero == [lvl |-> t.ptr, v |-> ZeroText(t), elems |-> <<>>, fresh |-> TRUE]
        IN  (log[i].r.what \notin {"skip", "missing"} /\ t.ptr > 0
             /\ (Present(p) \/ HasDefault(p))
             /\ (HasHook(t) \/ IsCoercible(t))) =>
                /\ out[p].lvl = t.ptr
                /\ out[p].fresh
                /\ HasHook(t) => log[i].r.called
                /\ log[i].r.err # NoError =>
                      /\ pc = "done"
                      /\ err = log[i].r.err
                      /\ IF t.recv = "pointer"
                         THEN out[p] \in {zero, [zero EXCEPT !.v = log[i].r.envValue]}
                         ELSE out[p] = zero

\* a **int16 the caller had pointed at 42, the variable set to a text that is no
\* number: the error is returned and the field points at a new 0
C13_Witness ==
    /\ pc = "done"
    /\ structType = <<F("N", "", PtrTo(PtrTo(T("int16"))))>>
    /\ preset
    /\ Initial[<<1>>].lvl = 2 /\ Initial[<<1>>].v = "42"
    /\ "N" \in DOMAIN envVars /\ envVars["N"] = "seven"
    /\ err = newFieldParseError("invalid syntax", "N", "N")
    /\ out[<<1>>].lvl = 2 /\ out[<<1>>].v = "0" /\ out[<<1>>].fresh

====
